---- MODULE Spec2Model ----
(***************************************************************************)
(* A model of the log-search command of src/src/extension.ts: the cached   *)
(* configuration, the module-level semaphore, the per-file streaming       *)
(* parser (plain lines and multi-line JSON blocks), cooperative            *)
(* cancellation, and the final sort and grouping.                          *)
(*                                                                         *)
(* Text is modelled as sequences of tokens.  A token is a record           *)
(* [k |-> kind, v |-> number]; a line is a sequence of tokens; a file is a *)
(* sequence of lines.  Instants are small naturals (epoch milliseconds).   *)
(***************************************************************************)
EXTENDS Integers, Sequences, FiniteSets, TLC

VARIABLES
    settings,                   \* the workspace configuration (logSearch.*)
    disk,                       \* the file system: path -> lines of the file
    denied,                     \* the file system: the directories that
                                \* readdir fails on (<<>> is the selected folder)
    commands,                   \* the command invocations that take place
    folder,                     \* per invocation: the files below the selected
                                \* folder, in the order the walk reaches them
    dateRange,                  \* per invocation: the date range the user types
    configCache,                \* module-level cache: <<>> (null) or <<config>>
    compiledTimestampPatterns,  \* module-level list of compiled rules
    semCount,                   \* semaphore: free slots
    semTasks,                   \* semaphore: FIFO queue of waiting units
    walking,                    \* per invocation: the directories whose
                                \* walkDirectory call awaits its readdir
    files,                      \* per invocation: the list getLogFiles fills
    phase,                      \* per invocation: position in the command handler
    token,                      \* per invocation: token.isCancellationRequested
    matchedEntries,             \* per invocation: the shared result list
    processedFiles,             \* per invocation: the progress counter
    units,                      \* per invocation: path -> state of that file's unit
    groupedEntries,             \* per invocation: what is handed to the export
    firstAtCancel               \* history, per invocation: until cancellation is
                                \* requested, the unit whose completion was the
                                \* latest step, if it is the only completed one;
                                \* kept as it is from the request on

vars == <<settings, disk, denied, commands, folder, dateRange, configCache,
          compiledTimestampPatterns, semCount, semTasks, walking, files,
          phase, token, matchedEntries, processedFiles, units,
          groupedEntries, firstAtCancel>>

(***************************************************************************)
(* Bounds of the model and constants of the program.                       *)
(***************************************************************************)
MAX_CONCURRENT_FILES == 10

MaxLines == 3

MaxEntries == 4

MaxRules == 2

SemUnits == 11

\* the command can be invoked again while an earlier invocation still runs
Scans == {1, 2}

(***************************************************************************)
(* Tokens and lines.                                                       *)
(***************************************************************************)
Tok(k, v) == [k |-> k, v |-> v]

LB == Tok("{", 0)

RB == Tok("}", 0)

COMMA == Tok(",", 0)

WS == Tok(" ", 0)

NL == Tok("\n", 0)

\* a member key that is not a timestamp field, with its colon: "b":
KEY == Tok("key", 0)

\* a JSON number
NUM == Tok("num", 1)

\* a member "<name>":"<ISO instant t>"; t = -1 stands for a string that is
\* no ISO instant
Fld(name, t) == Tok(name, t)

\* plain text: an ISO instant with a fraction (2023-01-01T00:00:00.000Z)
IsoF(t) == Tok("isoF", t)

\* plain text: an ISO instant without a fraction (2023-01-01T00:00:00Z)
Iso(t) == Tok("iso", t)

\* plain text: a run of decimal digits
Digits(n) == Tok("digits", n)

Word(w) == Tok(w, 0)

\* in place of a line of a file: from here on the read stream fails (the
\* 'error' event of fs.createReadStream: EACCES, EIO, ...)
ReadFailure == <<Tok("read error", 0)>>

FieldNames == {"created", "modified", "msg"}

Levels == {"DEBUG", "INFO", "WARN", "ERROR", "FATAL"}

Range(seq) == {seq[i] : i \in 1..Len(seq)}

\* line.trim(): leading and trailing white space removed
RECURSIVE TrimLeft(_)
TrimLeft(line) ==
    IF Len(line) > 0 /\ Head(line) = WS THEN TrimLeft(Tail(line)) ELSE line

RECURSIVE TrimRight(_)
TrimRight(line) ==
    IF Len(line) > 0 /\ line[Len(line)] = WS
    THEN TrimRight(SubSeq(line, 1, Len(line) - 1))
    ELSE line

Trim(line) == TrimRight(TrimLeft(line))

\* line.trim().startsWith('{')
StartsWithBrace(line) ==
    LET t == Trim(line) IN Len(t) > 0 /\ t[1] = LB

\* (line.match(/{/g) || []).length and the same for '}'
CountTok(line, tok) == Cardinality({i \in 1..Len(line) : line[i] = tok})

\* the JSON text without its insignificant white space
StripWs(text) == SelectSeq(text, LAMBDA t : t # WS /\ t # NL)

(***************************************************************************)
(* JSON.parse and JSON.stringify over token text.  The grammar is          *)
(*   value  ::= NUM | "{" "}" | "{" member ("," member)* "}"               *)
(*   member ::= Fld | KEY value                                            *)
(* A parsed object is kept as the sequence of its members in insertion     *)
(* order, a repeated key keeping its first place and its last value.       *)
(***************************************************************************)
ParseFail == [next |-> 0, out |-> <<>>, members |-> <<>>]

\* obj[key] = member: replaces the member with that key, or appends it
Upsert(members, m) ==
    IF \E j \in 1..Len(members) : members[j][1].k = m[1].k
    THEN [j \in 1..Len(members) |->
             IF members[j][1].k = m[1].k THEN m ELSE members[j]]
    ELSE Append(members, m)

RECURSIVE JoinMembers(_)
JoinMembers(members) ==
    IF Len(members) = 0 THEN <<>>
    ELSE IF Len(members) = 1 THEN members[1]
    ELSE members[1] \o <<COMMA>> \o JoinMembers(Tail(members))

RECURSIVE ParseValue(_, _), ParseMembers(_, _, _)
ParseValue(t, i) ==
    IF i > Len(t) THEN ParseFail
    ELSE IF t[i] = NUM THEN [next |-> i + 1, out |-> <<NUM>>, members |-> <<>>]
    ELSE IF t[i] = LB
         THEN IF i + 1 <= Len(t) /\ t[i + 1] = RB
              THEN [next |-> i + 2, out |-> <<LB, RB>>, members |-> <<>>]
              ELSE ParseMembers(t, i + 1, <<>>)
         ELSE ParseFail

ParseMembers(t, i, acc) ==
    IF i > Len(t) THEN ParseFail
    ELSE LET m == IF t[i].k \in FieldNames
                  THEN [next |-> i + 1, out |-> <<t[i]>>]
                  ELSE IF t[i] = KEY
                       THEN LET v == ParseValue(t, i + 1)
                            IN  [next |-> v.next, out |-> <<KEY>> \o v.out]
                       ELSE [next |-> 0, out |-> <<>>]
         IN  IF m.next = 0 \/ m.next > Len(t) THEN ParseFail
             ELSE LET acc2 == Upsert(acc, m.out)
                  IN  IF t[m.next] = COMMA THEN ParseMembers(t, m.next + 1, acc2)
                      ELSE IF t[m.next] = RB
                           THEN [next |-> m.next + 1,
                                 out |-> <<LB>> \o JoinMembers(acc2) \o <<RB>>,
                                 members |-> acc2]
                           ELSE ParseFail

\* JSON.parse(jsonBuffer): ok is FALSE where JSON.parse throws
JSONParse(text) ==
    LET t == StripWs(text)
        r == ParseValue(t, 1)
    IN  [ok |-> Len(t) > 0 /\ r.next = Len(t) + 1,
         members |-> r.members,
         out |-> r.out]

\* JSON.stringify(jsonObject)
JSONStringify(obj) == obj.out

\* jsonObject.hasOwnProperty(field)
HasOwnProperty(obj, field) ==
    \E j \in 1..Len(obj.members) : obj.members[j][1].k = field

\* DateTime.fromISO(jsonObject[field], {zone: 'utc'}): <<>> when invalid,
\* <<millis>> when valid
FromISOProperty(obj, field) ==
    LET j == CHOOSE j \in 1..Len(obj.members) : obj.members[j][1].k = field
        m == obj.members[j]
    IN  IF Len(m) = 1 /\ m[1].k \in FieldNames /\ m[1].v >= 0
        THEN <<m[1].v>> ELSE <<>>

\* extractTimestampFromJson: <<>> is null
RECURSIVE ExtractFrom(_, _, _)
ExtractFrom(obj, fields, i) ==
    IF i > Len(fields) THEN <<>>
    ELSE IF HasOwnProperty(obj, fields[i])
            /\ FromISOProperty(obj, fields[i]) # <<>>
         THEN FromISOProperty(obj, fields[i])
         ELSE ExtractFrom(obj, fields, i + 1)

extractTimestampFromJson(obj) ==
    ExtractFrom(obj, configCache[1].timestampFields, 1)

(***************************************************************************)
(* Timestamps of plain lines.                                              *)
(***************************************************************************)
\* a rule pattern: digits at the start of the line, followed by a space
PatEpoch == "^(\\d+) "

\* a rule pattern that is no regular expression
PatMalformed == "("

\* a rule pattern: an ISO instant without a fraction, anywhere in the line
PatIso == "\\d{4}-\\d{2}-\\d{2}T\\d{2}:\\d{2}:\\d{2}Z"

\* the Luxon format of an ISO instant without a fraction
FormatIso == "yyyy-MM-dd'T'HH:mm:ss'Z'"

\* a Luxon format that fits neither a run of digits nor a whole ISO instant
FormatDate == "yyyy-MM-dd"

\* new RegExp(pattern) throws a SyntaxError
RegExpThrows(pattern) == pattern = PatMalformed

\* line.match(regex), then match[1] || match[0]: <<>> when there is no match
RegexMatch(pattern, line) ==
    IF pattern = PatEpoch /\ Len(line) >= 2 /\ line[1].k = "digits"
    THEN <<line[1]>>
    ELSE IF pattern = PatIso /\ \E i \in 1..Len(line) : line[i].k = "iso"
    THEN LET i == CHOOSE i \in 1..Len(line) :
                      /\ line[i].k = "iso"
                      /\ \A j \in 1..(i - 1) : line[j].k # "iso"
         IN  <<line[i]>>
    ELSE <<>>

\* the DateTime built from the matched text under a rule's format, for the
\* rules in use: digits under 'X', 'x' or a format that does not fit them,
\* an ISO instant under its own format or a format that does not fit it
InterpretMatch(tok, format) ==
    IF tok.k = "iso"
    THEN IF format = FormatIso /\ tok.v >= 0 THEN <<tok.v>> ELSE <<>>
    ELSE IF format = "X" THEN <<tok.v * 1000>>
    ELSE IF format = "x" THEN <<tok.v>>
    ELSE <<>>

\* line.match(isoRegex): the first ISO instant that carries a fraction
IsoMatch(line) ==
    IF \E i \in 1..Len(line) : line[i].k = "isoF"
    THEN LET i == CHOOSE i \in 1..Len(line) :
                      /\ line[i].k = "isoF"
                      /\ \A j \in 1..(i - 1) : line[j].k # "isoF"
         IN  <<line[i]>>
    ELSE <<>>

\* a loop that ends at the first rule that matches, valid or not
RECURSIVE RuleLoopFirstMatch(_, _, _)
RuleLoopFirstMatch(rules, line, i) ==
    IF i > Len(rules)
    THEN LET m == IsoMatch(line)
         IN  IF m # <<>> /\ m[1].v >= 0 THEN <<m[1].v>> ELSE <<>>
    ELSE LET m == RegexMatch(rules[i].regex, line)
         IN  IF m # <<>>
             THEN InterpretMatch(m[1], rules[i].format)
             ELSE RuleLoopFirstMatch(rules, line, i + 1)

RECURSIVE RuleLoop(_, _, _)
RuleLoop(rules, line, i) ==
    IF i > Len(rules)
    THEN LET m == IsoMatch(line)
         IN  IF m # <<>> /\ m[1].v >= 0 THEN <<m[1].v>> ELSE <<>>
    ELSE LET m == RegexMatch(rules[i].regex, line)
         IN  IF m # <<>> /\ InterpretMatch(m[1], rules[i].format) # <<>>
             THEN InterpretMatch(m[1], rules[i].format)
             ELSE RuleLoop(rules, line, i + 1)

\* parseTimestamp: <<>> is null
parseTimestamp(line) == RuleLoop(compiledTimestampPatterns, line, 1)

isWithinRangeLowerOnly(timestamp, startEpoch, endEpoch) ==
    timestamp >= startEpoch

isWithinRange(timestamp, startEpoch, endEpoch) ==
    timestamp >= startEpoch /\ timestamp <= endEpoch

(***************************************************************************)
(* Paths and glob patterns.                                                *)
(***************************************************************************)
Path(dirs, base, ext) == [dirs |-> dirs, base |-> base, ext |-> ext]

\* <n>.log directly below the selected folder
LogPath(n) == Path(<<>>, n, "log")

\* micromatch.isMatch(relativePath, pattern) for the patterns in use
GlobMatch(path, glob) ==
    IF glob = "**/*.log" THEN path.ext = "log"
    ELSE IF glob = "*.log" THEN path.ext = "log" /\ path.dirs = <<>>
    ELSE IF glob = "**/node_modules/**"
         THEN \E i \in 1..Len(path.dirs) : path.dirs[i] = "node_modules"
    ELSE IF glob = "**/archive/**"
         THEN \E i \in 1..Len(path.dirs) : path.dirs[i] = "archive"
    ELSE FALSE

\* micromatch.isMatch(relativePath, patterns)
IsMatch(path, patterns) ==
    \E i \in 1..Len(patterns) : GlobMatch(path, patterns[i])

\* d is the start of the directory sequence dirs
IsPrefix(d, dirs) == Len(d) <= Len(dirs) /\ SubSeq(dirs, 1, Len(d)) = d

\* readdir(dir) and stat: the regular files of directory d, in listing order
FilesIn(tree, d) == SelectSeq(tree, LAMBDA p : p.dirs = d)

\* readdir(dir) and stat: the subdirectories of directory d
SubDirs(tree, d) ==
    {SubSeq(p.dirs, 1, Len(d) + 1) :
        p \in {q \in Range(tree) : IsPrefix(d, q.dirs) /\ Len(q.dirs) > Len(d)}}

\* getLogFiles, the test of a regular file: the files of a listing that
\* match an include pattern and no exclude pattern, in the order of pushing
getLogFiles(listing) ==
    SelectSeq(listing, LAMBDA p :
        /\ IsMatch(p, configCache[1].includePatterns)
        /\ ~IsMatch(p, configCache[1].excludePatterns))

WalkDoneRootOnly(w) == <<>> \notin w

\* `await walkDirectory(folderPath)` returns: no walk is outstanding
WalkDone(w) == w = {}

(***************************************************************************)
(* processLogFile: the state of one file unit and its steps.               *)
(***************************************************************************)
NewUnit ==
    [pc |-> "queued", opened |-> FALSE, pos |-> 0, lineNumber |-> 0,
     jsonBuffer |-> <<>>, insideJson |-> FALSE, openBracesCount |-> 0]

StartUnitNoCheck(u, cancelled) ==
    [u EXCEPT !.pc = "reading", !.opened = TRUE]

\* the cancellation check on entry, createReadStream, the initial locals
StartUnit(u, cancelled) ==
    IF cancelled
    THEN [u EXCEPT !.pc = "returned"]
    ELSE [u EXCEPT !.pc = "reading", !.opened = TRUE]

JsonCandidateUnparsed(buffer, path, lineNumber, w) ==
    <<[timestamp |-> w.startEpoch, line |-> buffer,
       filePath |-> path, lineNumber |-> lineNumber]>>

\* the try block around JSON.parse: the entries it pushes (none or one)
JsonCandidate(buffer, path, lineNumber, w) ==
    LET jsonObject == JSONParse(buffer)
        ts == IF jsonObject.ok THEN extractTimestampFromJson(jsonObject) ELSE <<>>
    IN  IF /\ jsonObject.ok
           /\ ts # <<>>
           /\ ts[1] # 0
           /\ isWithinRange(ts[1], w.startEpoch, w.endEpoch)
        THEN <<[timestamp |-> ts[1], line |-> JSONStringify(jsonObject),
                filePath |-> path, lineNumber |-> lineNumber]>>
        ELSE <<>>

\* a plain line: the entries it pushes (none or one)
PlainCandidate(line, path, lineNumber, w) ==
    LET ts == parseTimestamp(line)
    IN  IF ts # <<>> /\ isWithinRange(ts[1], w.startEpoch, w.endEpoch)
        THEN <<[timestamp |-> ts[1], line |-> line,
                filePath |-> path, lineNumber |-> lineNumber]>>
        ELSE <<>>

\* one iteration of the read loop on an uncancelled unit
LineStep(u, line, path, w) ==
    LET n == u.lineNumber + 1
        count == u.openBracesCount + CountTok(line, LB) - CountTok(line, RB)
        buffer == u.jsonBuffer \o <<NL>> \o line
    IN  IF StartsWithBrace(line)
        THEN [u |-> [u EXCEPT !.lineNumber = n, !.insideJson = TRUE,
                                !.openBracesCount = 1, !.jsonBuffer = line],
              push |-> <<>>]
        ELSE IF u.insideJson
        THEN IF count = 0
             THEN [u |-> [u EXCEPT !.lineNumber = n, !.insideJson = FALSE,
                                     !.openBracesCount = 0, !.jsonBuffer = <<>>],
                   push |-> JsonCandidate(buffer, path, n, w)]
             ELSE [u |-> [u EXCEPT !.lineNumber = n, !.openBracesCount = count,
                                     !.jsonBuffer = buffer],
                   push |-> <<>>]
        ELSE [u |-> [u EXCEPT !.lineNumber = n],
              push |-> PlainCandidate(line, path, n, w)]

PushOverwriting(list, pushed) == IF pushed = <<>> THEN list ELSE pushed

\* matchedEntries.push(...) for the entries a step pushes
Push(list, pushed) == list \o pushed

EndStepDiscard(u, path, w) == <<>>

\* after the loop: the entries pushed from the remaining JSON buffer
EndStep(u, path, w) ==
    IF Len(u.jsonBuffer) > 0 /\ u.insideJson
    THEN JsonCandidate(u.jsonBuffer, path, u.lineNumber, w)
    ELSE <<>>

(***************************************************************************)
(* Sorting and grouping.                                                   *)
(***************************************************************************)
\* e placed behind every entry of the sorted list that does not compare
\* greater: the sort is stable
RECURSIVE InsertSorted(_, _)
InsertSorted(sorted, e) ==
    IF Len(sorted) = 0 THEN <<e>>
    ELSE IF sorted[Len(sorted)].timestamp - e.timestamp <= 0
         THEN Append(sorted, e)
         ELSE Append(InsertSorted(SubSeq(sorted, 1, Len(sorted) - 1), e),
                     sorted[Len(sorted)])

RECURSIVE SortLoop(_, _, _)
SortLoop(entries, i, sorted) ==
    IF i > Len(entries) THEN sorted
    ELSE SortLoop(entries, i + 1, InsertSorted(sorted, entries[i]))

\* a sort that keeps one entry per timestamp
SortEntriesUnique(entries) ==
    SortLoop(SelectSeq(entries, LAMBDA e :
                 e = (CHOOSE x \in Range(entries) : x.timestamp = e.timestamp)),
             1, <<>>)

\* no sort: the entries stay in the order in which they were pushed
SortEntriesNone(entries) == entries

\* matchedEntries.sort((a, b) => a.timestamp - b.timestamp)
SortEntries(entries) == SortLoop(entries, 1, <<>>)

\* a grouping that compares file paths only
RECURSIVE GroupLoopByFile(_, _, _)
GroupLoopByFile(entries, i, groups) ==
    IF i > Len(entries) THEN groups
    ELSE LET entry == entries[i]
             n == Len(groups)
         IN  IF n > 0 /\ entry.filePath = groups[n].filePath
             THEN GroupLoopByFile(entries, i + 1,
                      [groups EXCEPT ![n] =
                          [@ EXCEPT !.entries = Append(@, entry),
                                    !.endTimestamp = entry.timestamp]])
             ELSE GroupLoopByFile(entries, i + 1,
                      Append(groups,
                          [filePath |-> entry.filePath,
                           startTimestamp |-> entry.timestamp,
                           endTimestamp |-> entry.timestamp,
                           entries |-> <<entry>>]))

\* a grouping that leaves out an entry older than the end of its file's group
RECURSIVE GroupLoopSkipOlder(_, _, _)
GroupLoopSkipOlder(entries, i, groups) ==
    IF i > Len(entries) THEN groups
    ELSE LET entry == entries[i]
             n == Len(groups)
         IN  IF /\ n > 0
                /\ entry.filePath = groups[n].filePath
             THEN IF entry.timestamp >= groups[n].endTimestamp
                  THEN GroupLoopSkipOlder(entries, i + 1,
                           [groups EXCEPT ![n] =
                               [@ EXCEPT !.entries = Append(@, entry),
                                         !.endTimestamp = entry.timestamp]])
                  ELSE GroupLoopSkipOlder(entries, i + 1, groups)
             ELSE GroupLoopSkipOlder(entries, i + 1,
                      Append(groups,
                          [filePath |-> entry.filePath,
                           startTimestamp |-> entry.timestamp,
                           endTimestamp |-> entry.timestamp,
                           entries |-> <<entry>>]))

\* a grouping that never moves the end of a group
RECURSIVE GroupLoopKeepEnd(_, _, _)
GroupLoopKeepEnd(entries, i, groups) ==
    IF i > Len(entries) THEN groups
    ELSE LET entry == entries[i]
             n == Len(groups)
         IN  IF /\ n > 0
                /\ entry.filePath = groups[n].filePath
                /\ entry.timestamp >= groups[n].startTimestamp
                /\ entry.timestamp >= groups[n].endTimestamp
             THEN GroupLoopKeepEnd(entries, i + 1,
                      [groups EXCEPT ![n] =
                          [@ EXCEPT !.entries = Append(@, entry)]])
             ELSE GroupLoopKeepEnd(entries, i + 1,
                      Append(groups,
                          [filePath |-> entry.filePath,
                           startTimestamp |-> entry.timestamp,
                           endTimestamp |-> entry.timestamp,
                           entries |-> <<entry>>]))

\* the loop of groupEntries from entry i on, groups being the groups so far
\* and the last of them the current group
RECURSIVE GroupLoop(_, _, _)
GroupLoop(entries, i, groups) ==
    IF i > Len(entries) THEN groups
    ELSE LET entry == entries[i]
             n == Len(groups)
         IN  IF /\ n > 0
                /\ entry.filePath = groups[n].filePath
                /\ entry.timestamp >= groups[n].startTimestamp
                /\ entry.timestamp >= groups[n].endTimestamp
             THEN GroupLoop(entries, i + 1,
                      [groups EXCEPT ![n] =
                          [@ EXCEPT !.entries = Append(@, entry),
                                    !.endTimestamp = entry.timestamp]])
             ELSE GroupLoop(entries, i + 1,
                      Append(groups,
                          [filePath |-> entry.filePath,
                           startTimestamp |-> entry.timestamp,
                           endTimestamp |-> entry.timestamp,
                           entries |-> <<entry>>]))

groupEntries(entries) == GroupLoop(entries, 1, <<>>)

(***************************************************************************)
(* The semaphore (await-semaphore): a count of free slots and a FIFO queue *)
(* of waiting tasks; sched() hands a slot to the task at the head.         *)
(***************************************************************************)
SemCanGrantNoLimit(count, tasks) == Len(tasks) > 0

SemCanGrant(count, tasks) == count > 0 /\ Len(tasks) > 0

(***************************************************************************)
(* initializeConfig.                                                       *)
(***************************************************************************)
\* the snapshot of the settings stored in configCache
ConfigSnapshot ==
    [includePatterns |-> settings.includePatterns,
     excludePatterns |-> settings.excludePatterns,
     customTimestampPatterns |-> settings.customTimestampRegexes,
     timestampFields |-> settings.timestampFields]

\* new RegExp throws on one of the cached patterns
CompileThrows(patterns) ==
    \E i \in 1..Len(patterns) : RegExpThrows(patterns[i].pattern)

CompilePatterns(patterns) ==
    [i \in 1..Len(patterns) |->
        [regex |-> patterns[i].pattern, format |-> patterns[i].format]]

(***************************************************************************)
(* Actions.                                                                *)
(***************************************************************************)
\* the command handler up to the first readdir of getLogFiles: the
\* dialogs, the date range, initializeConfig, withProgress
Invoke(s) ==
    /\ s \in commands
    /\ phase[s] = "idle"
    /\ LET fresh == configCache = <<>>
           throws == fresh /\ CompileThrows(settings.customTimestampRegexes)
       IN  /\ configCache' = IF fresh THEN <<ConfigSnapshot>> ELSE configCache
           /\ compiledTimestampPatterns' =
                 IF fresh /\ ~throws
                 THEN CompilePatterns(settings.customTimestampRegexes)
                 ELSE compiledTimestampPatterns
           /\ phase' = [phase EXCEPT ![s] = IF throws THEN "failed" ELSE "enumerating"]
           /\ walking' = [walking EXCEPT ![s] = IF throws THEN @ ELSE {<<>>}]
    /\ UNCHANGED files
    /\ UNCHANGED <<settings, disk, denied, commands, folder, dateRange,
                   semCount, semTasks, token, matchedEntries, processedFiles,
                   units, groupedEntries, firstAtCancel>>

\* walkDirectory(d) resumes after readdir.  A directory that cannot be read
\* is logged and left; otherwise the matching files of d are pushed and the
\* walks of its subdirectories start.  stat succeeds on every item that
\* readdir lists, and the stats of the items of one directory are taken in
\* listing order.
WalkDirectory(s, d) ==
    /\ phase[s] = "enumerating"
    /\ d \in walking[s]
    /\ IF d \in denied
       THEN /\ walking' = [walking EXCEPT ![s] = @ \ {d}]
            /\ UNCHANGED files
       ELSE /\ walking' = [walking EXCEPT ![s] = (@ \ {d}) \cup SubDirs(folder[s], d)]
            /\ files' = [files EXCEPT ![s] = @ \o getLogFiles(FilesIn(folder[s], d))]
    /\ UNCHANGED <<settings, disk, denied, commands, folder, dateRange,
                   configCache, compiledTimestampPatterns, semCount, semTasks,
                   phase, token, matchedEntries, processedFiles, units,
                   groupedEntries, firstAtCancel>>

\* getLogFiles resolves; logFiles.map starts one unit per file, each of
\* which calls semaphore.acquire() and waits in the queue
Enumerated(s) ==
    /\ phase[s] = "enumerating"
    /\ WalkDone(walking[s])
    /\ LET logFiles == files[s]
       IN  /\ units' = [units EXCEPT ![s] = [p \in Range(logFiles) |-> NewUnit]]
           /\ semTasks' = semTasks \o [i \in 1..Len(logFiles) |-> <<s, logFiles[i]>>]
    /\ phase' = [phase EXCEPT ![s] = "processing"]
    /\ UNCHANGED <<settings, disk, denied, walking, files, commands, folder,
                   dateRange, configCache,
                   compiledTimestampPatterns, semCount, token, matchedEntries,
                   processedFiles, groupedEntries, firstAtCancel>>

\* the user cancels the progress notification of invocation s
Cancel(s) ==
    /\ phase[s] \in {"enumerating", "processing"}
    /\ ~token[s]
    /\ token' = [token EXCEPT ![s] = TRUE]
    /\ UNCHANGED <<settings, disk, denied, walking, files, commands, folder,
                   dateRange, configCache,
                   compiledTimestampPatterns, semCount, semTasks, phase,
                   matchedEntries, processedFiles, units, groupedEntries,
                   firstAtCancel>>

\* the history after a step of unit p of invocation s
TrackFirst(s, p, completes) ==
    [firstAtCancel EXCEPT ![s] =
        IF token[s] THEN @
        ELSE IF completes /\ \A q \in DOMAIN units[s] : units[s][q].pc # "settled"
             THEN {p}
             ELSE {}]

\* The steps of a file unit.  When processLogFile returns, the promise the
\* unit awaits resolves and the rest of the unit (processedFiles++,
\* progress.report, release()) runs as the next microtask, before any I/O
\* or cancellation event is handled: it belongs to the step that returns.

\* sched() gives the head of the queue a slot; the unit resumes after
\* `await semaphore.acquire()` and runs processLogFile up to its read loop
AcquireAndStart(s, p) ==
    /\ SemCanGrant(semCount, semTasks)
    /\ Head(semTasks) = <<s, p>>
    /\ semTasks' = Tail(semTasks)
    /\ LET u == StartUnit(units[s][p], token[s])
       IN  /\ IF u.pc = "returned"
              THEN /\ units' = [units EXCEPT ![s][p] = [u EXCEPT !.pc = "settled"]]
                   /\ processedFiles' = [processedFiles EXCEPT ![s] = @ + 1]
                   /\ semCount' = (semCount - 1) + 1
              ELSE /\ units' = [units EXCEPT ![s][p] = u]
                   /\ semCount' = semCount - 1
                   /\ UNCHANGED processedFiles
           /\ firstAtCancel' = TrackFirst(s, p, u.pc = "returned")
    /\ UNCHANGED <<settings, disk, denied, walking, files, commands, folder,
                   dateRange, configCache,
                   compiledTimestampPatterns, phase, token, matchedEntries,
                   groupedEntries>>

\* one iteration of `for await (const line of rl)`
ReadLine(s, p) ==
    /\ units[s][p].pc = "reading"
    /\ units[s][p].pos < Len(disk[p])
    /\ disk[p][units[s][p].pos + 1] # ReadFailure
    /\ IF token[s]
       THEN /\ units' = [units EXCEPT ![s][p].pc = "settled"]
            /\ processedFiles' = [processedFiles EXCEPT ![s] = @ + 1]
            /\ semCount' = semCount + 1
            /\ UNCHANGED matchedEntries
       ELSE LET r == LineStep(units[s][p], disk[p][units[s][p].pos + 1],
                              p, dateRange[s])
            IN  /\ units' = [units EXCEPT ![s][p] =
                                [r.u EXCEPT !.pos = units[s][p].pos + 1]]
                /\ matchedEntries' = [matchedEntries EXCEPT ![s] = Push(@, r.push)]
                /\ UNCHANGED <<processedFiles, semCount>>
    /\ firstAtCancel' = TrackFirst(s, p, token[s])
    /\ UNCHANGED <<settings, disk, denied, walking, files, commands, folder,
                   dateRange, configCache,
                   compiledTimestampPatterns, semTasks, phase, token,
                   groupedEntries>>

\* the stream has ended: the code after the loop, then the finally block
EndOfStream(s, p) ==
    /\ units[s][p].pc = "reading"
    /\ units[s][p].pos = Len(disk[p])
    /\ matchedEntries' = [matchedEntries EXCEPT ![s] =
           Push(@, EndStep(units[s][p], p, dateRange[s]))]
    /\ units' = [units EXCEPT ![s][p].pc = "settled"]
    /\ processedFiles' = [processedFiles EXCEPT ![s] = @ + 1]
    /\ semCount' = semCount + 1
    /\ firstAtCancel' = TrackFirst(s, p, TRUE)
    /\ UNCHANGED <<settings, disk, denied, walking, files, commands, folder,
                   dateRange, configCache,
                   compiledTimestampPatterns, semTasks, phase, token,
                   groupedEntries>>

\* Promise.all has resolved: the sort, groupEntries, the export
SortAndGroup(s) ==
    /\ phase[s] = "processing"
    /\ \A p \in DOMAIN units[s] : units[s][p].pc = "settled"
    /\ matchedEntries' = [matchedEntries EXCEPT ![s] = SortEntries(@)]
    /\ groupedEntries' = [groupedEntries EXCEPT ![s] =
           groupEntries(SortEntries(matchedEntries[s]))]
    /\ phase' = [phase EXCEPT ![s] = "done"]
    /\ firstAtCancel' = [firstAtCancel EXCEPT ![s] = IF token[s] THEN @ ELSE {}]
    /\ UNCHANGED <<settings, disk, denied, walking, files, commands, folder,
                   dateRange, configCache,
                   compiledTimestampPatterns, semCount, semTasks, token,
                   processedFiles, units>>

Next ==
    \/ \E s \in Scans : Invoke(s)
    \/ \E s \in Scans : \E d \in walking[s] : WalkDirectory(s, d)
    \/ \E s \in Scans : Enumerated(s)
    \/ \E s \in Scans : Cancel(s)
    \/ \E s \in Scans : \E p \in DOMAIN units[s] : AcquireAndStart(s, p)
    \/ \E s \in Scans : \E p \in DOMAIN units[s] : ReadLine(s, p)
    \/ \E s \in Scans : \E p \in DOMAIN units[s] : EndOfStream(s, p)
    \/ \E s \in Scans : SortAndGroup(s)

(***************************************************************************)
(* Initial states.                                                         *)
(***************************************************************************)
\* the defaults of package.json
DefaultSettings ==
    [includePatterns |-> <<"**/*.log">>,
     excludePatterns |-> <<"**/node_modules/**">>,
     customTimestampRegexes |-> <<>>,
     timestampFields |-> <<"created", "modified">>,
     logLevels |-> {"INFO", "WARN", "ERROR", "FATAL"}]

Window(a, b) == [startEpoch |-> a, endEpoch |-> b]

\* the state of the extension host after activation, before any command
Activated ==
    /\ configCache = <<>>
    /\ compiledTimestampPatterns = <<>>
    /\ semCount = MAX_CONCURRENT_FILES
    /\ semTasks = <<>>
    /\ walking = [s \in Scans |-> {}]
    /\ files = [s \in Scans |-> <<>>]
    /\ phase = [s \in Scans |-> "idle"]
    /\ token = [s \in Scans |-> FALSE]
    /\ matchedEntries = [s \in Scans |-> <<>>]
    /\ processedFiles = [s \in Scans |-> 0]
    /\ units = [s \in Scans |-> <<>>]
    /\ groupedEntries = [s \in Scans |-> <<>>]
    /\ firstAtCancel = [s \in Scans |-> {}]

PlainLine(t, level) == <<IsoF(t), Word(level), Word("txt")>>

JsonLine(t) == <<LB, Fld("created", t), RB>>

\* the file contents of the scan scenarios
FileInfoError == <<PlainLine(1, "INFO"), PlainLine(3, "ERROR")>>

FileDebug == <<PlainLine(1, "DEBUG")>>

FileJsonAtEnd == <<JsonLine(1)>>

FileJsonBlock == << <<LB>>, <<Fld("created", 2)>>, <<RB>> >>

ScanFiles == {FileInfoError, FileDebug, FileJsonAtEnd, FileJsonBlock}

NotesTxt == Path(<<>>, 1, "txt")

\* one invocation over a folder of three log files and one other file;
\* every assignment of contents to the three names is drawn, so the order
\* in which the walk reaches them is fixed
Init ==
    /\ Activated
    /\ denied = {}
    /\ commands = {1}
    /\ folder = [s \in Scans |-> <<LogPath(1), LogPath(2), LogPath(3), NotesTxt>>]
    /\ \E c \in [{LogPath(1), LogPath(2), LogPath(3)} -> ScanFiles] :
          disk = [p \in DOMAIN c \cup {NotesTxt} |->
                     IF p = NotesTxt THEN FileDebug ELSE c[p]]
    /\ \E w \in {Window(0, 2), Window(2, 3)} : dateRange = [s \in Scans |-> w]
    /\ \E levels \in {DefaultSettings.logLevels, {"ALL"}} :
       \E rules \in {<<>>, <<[pattern |-> PatMalformed, format |-> "x"]>>} :
          settings = [DefaultSettings EXCEPT !.logLevels = levels,
                                             !.customTimestampRegexes = rules]

Spec == Init /\ [][Next]_vars

(***************************************************************************)
(* The parser on its own: one invocation over one file, the file being     *)
(* any sequence of at most MaxLines lines of ParserLines.                  *)
(***************************************************************************)
ParserLines ==
    { <<LB>>,
      <<RB>>,
      <<WS, LB>>,
      <<RB, RB>>,
      <<Fld("created", 0)>>,
      <<Fld("created", 1)>>,
      <<Fld("msg", 1)>>,
      JsonLine(1),
      <<COMMA, KEY, LB, Fld("created", 1), RB>>,
      <<LB, KEY, NUM, COMMA>>,
      PlainLine(1, "INFO"),
      <<Word("txt")>>,
      <<>> }

RECURSIVE SeqsUpTo(_, _)
SeqsUpTo(S, n) ==
    IF n = 0 THEN {<<>>}
    ELSE LET shorter == SeqsUpTo(S, n - 1)
         IN  shorter \cup {Append(q, x) : q \in shorter, x \in S}

InitParse ==
    /\ Activated
    /\ denied = {}
    /\ commands = {1}
    /\ folder = [s \in Scans |-> <<LogPath(1)>>]
    /\ \E lines \in SeqsUpTo(ParserLines, MaxLines) :
          disk = [p \in {LogPath(1)} |-> lines]
    /\ dateRange \in [Scans -> {Window(0, 2), Window(2, 3)}]
    /\ settings = DefaultSettings

SpecParse == InitParse /\ [][Next]_vars

(***************************************************************************)
(* The semaphore under load: two overlapping invocations with SemUnits     *)
(* files between them, more than there are slots.                          *)
(***************************************************************************)
InitSem ==
    /\ Activated
    /\ denied = {}
    /\ commands = {1, 2}
    /\ folder = [s \in Scans |->
          IF s = 1 THEN [i \in 1..(SemUnits - 1) |-> LogPath(i)]
                   ELSE <<LogPath(SemUnits)>>]
    /\ disk = [p \in {LogPath(i) : i \in 1..SemUnits} |->
                 IF p = LogPath(SemUnits) THEN FileDebug ELSE <<>>]
    /\ dateRange \in [Scans -> {Window(0, 2)}]
    /\ settings = DefaultSettings

SpecSem == InitSem /\ [][Next]_vars

(***************************************************************************)
(* Two invocations with identical inputs: the same folder, the same date   *)
(* range, the same configuration.                                          *)
(***************************************************************************)
FileTwoTies == <<PlainLine(1, "INFO"), PlainLine(2, "INFO")>>

InitTwo ==
    /\ Activated
    /\ denied = {}
    /\ commands = {1, 2}
    /\ folder = [s \in Scans |-> <<LogPath(1), LogPath(2)>>]
    /\ \E c \in [{LogPath(1), LogPath(2)} -> {FileDebug, FileTwoTies, FileJsonBlock}] :
          disk = c
    /\ \E w \in {Window(0, 2), Window(2, 3)} : dateRange = [s \in Scans |-> w]
    /\ settings = DefaultSettings

SpecTwo == InitTwo /\ [][Next]_vars

(***************************************************************************)
(* Scheduling.  The event loop runs every continuation that is ready: a    *)
(* step of the program that stays enabled is taken.  The steps of the user *)
(* (invoking the command, cancelling) carry no such guarantee.             *)
(***************************************************************************)
ProgramStep ==
    \/ \E s \in Scans : \E d \in walking[s] : WalkDirectory(s, d)
    \/ \E s \in Scans : Enumerated(s)
    \/ \E s \in Scans : \E p \in DOMAIN units[s] : AcquireAndStart(s, p)
    \/ \E s \in Scans : \E p \in DOMAIN units[s] : ReadLine(s, p)
    \/ \E s \in Scans : \E p \in DOMAIN units[s] : EndOfStream(s, p)
    \/ \E s \in Scans : SortAndGroup(s)

\* one invocation over three log files, two of them with any contents
InitFair ==
    /\ Activated
    /\ denied = {}
    /\ commands = {1}
    /\ folder = [s \in Scans |-> <<LogPath(1), LogPath(2), LogPath(3)>>]
    /\ \E c \in [{LogPath(1), LogPath(2)} -> ScanFiles] :
          disk = [p \in DOMAIN c \cup {LogPath(3)} |->
                     IF p = LogPath(3) THEN FileInfoError ELSE c[p]]
    /\ dateRange = [s \in Scans |-> Window(0, 2)]
    /\ settings = DefaultSettings

FairSpec == InitFair /\ [][Next]_vars /\ WF_vars(ProgramStep)

(***************************************************************************)
(* An inverted date range: the start the user types lies after the end.    *)
(* Two files, one of them any sequence of at most MaxLines lines.          *)
(***************************************************************************)
InitInverted ==
    /\ Activated
    /\ denied = {}
    /\ commands = {1}
    /\ folder = [s \in Scans |-> <<LogPath(1), LogPath(2)>>]
    /\ \E lines \in SeqsUpTo(ParserLines, MaxLines) :
          disk = [p \in {LogPath(1), LogPath(2)} |->
                     IF p = LogPath(1) THEN lines ELSE FileInfoError]
    /\ \E w \in {Window(1, 0), Window(3, 1)} : dateRange = [s \in Scans |-> w]
    /\ settings = DefaultSettings

SpecInverted == InitInverted /\ [][Next]_vars

(***************************************************************************)
(* The walk: a folder with subdirectories, some of which cannot be read.   *)
(***************************************************************************)
\* the regular files below the selected folder, in listing order
WalkTree ==
    << LogPath(1),
       NotesTxt,
       Path(<<"app">>, 2, "log"),
       Path(<<"app", "node_modules">>, 3, "log"),
       Path(<<"old">>, 4, "log"),
       Path(<<"old", "archive">>, 5, "log") >>

InitWalk ==
    /\ Activated
    /\ denied \in SUBSET {<<>>, <<"app">>, <<"old">>}
    /\ commands = {1}
    /\ folder = [s \in Scans |-> WalkTree]
    /\ disk = [p \in Range(WalkTree) |->
                 IF p = LogPath(1) THEN FileDebug
                 ELSE IF p.dirs = <<"app">> THEN FileJsonAtEnd
                 ELSE <<>>]
    /\ dateRange = [s \in Scans |-> Window(0, 2)]
    /\ \E inc \in {<<"**/*.log">>, <<"*.log">>} :
       \E exc \in {<<"**/node_modules/**">>,
                   <<"**/node_modules/**", "**/archive/**">>} :
          settings = [DefaultSettings EXCEPT !.includePatterns = inc,
                                             !.excludePatterns = exc]

SpecWalk == InitWalk /\ [][Next]_vars

(***************************************************************************)
(* The configuration: two invocations over one file, the user editing the  *)
(* settings at any time.                                                   *)
(***************************************************************************)
EpochRule == [pattern |-> PatEpoch, format |-> "x"]

MalformedRule == [pattern |-> PatMalformed, format |-> "x"]

ConfigA == [DefaultSettings EXCEPT !.logLevels = {"ALL"}]

ConfigB ==
    [ConfigA EXCEPT !.customTimestampRegexes = <<EpochRule>>,
                    !.timestampFields = <<"modified">>,
                    !.includePatterns = <<"*.log">>]

ConfigC == [ConfigA EXCEPT !.customTimestampRegexes = <<MalformedRule, EpochRule>>]

ConfigChoices == {ConfigA, ConfigB, ConfigC}

\* the user saves other values for the logSearch settings
ChangeSettings(c) ==
    /\ settings # c
    /\ settings' = c
    /\ UNCHANGED <<disk, denied, commands, folder, dateRange, configCache,
                   compiledTimestampPatterns, semCount, semTasks, walking,
                   files, phase, token, matchedEntries, processedFiles, units,
                   groupedEntries, firstAtCancel>>

NextConfig ==
    \/ Next
    \/ \E c \in ConfigChoices : ChangeSettings(c)

\* "<epoch millis> INFO txt", then a line with an ISO instant with fraction
FileEpoch == << <<Digits(1), Word("INFO"), Word("txt")>>, PlainLine(2, "INFO") >>

\* "2023-01-01T00:00:00Z INFO start" and "2023-01-01T00:00:05Z ERROR boom"
\* on the scale of the model: the instants 1 and 3, without fractions
FileIsoExample ==
    << <<Iso(1), Word("INFO"), Word("start")>>,
       <<Iso(3), Word("ERROR"), Word("boom")>> >>

InitConfig ==
    /\ Activated
    /\ denied = {}
    /\ commands = {1, 2}
    /\ folder = [s \in Scans |-> <<LogPath(1)>>]
    /\ \E lines \in {FileEpoch, FileIsoExample, FileJsonBlock} :
          disk = [p \in {LogPath(1)} |-> lines]
    /\ dateRange = [s \in Scans |-> Window(1, 2)]
    /\ settings \in ConfigChoices

SpecConfig == InitConfig /\ [][NextConfig]_vars

(***************************************************************************)
(* Read errors.  The read stream of a file emits 'error'.  What the read   *)
(* loop sees depends on the runtime: a readline that forwards the error of *)
(* its input rejects the pending iteration, and the catch block around the *)
(* loop runs; a readline that does not forward it (the Node.js 14 of the   *)
(* oldest editor that package.json admits) never ends the iteration.       *)
(***************************************************************************)
\* unit p is about to get the failure of its stream
AtReadFailure(s, p) ==
    /\ units[s][p].pc = "reading"
    /\ units[s][p].pos < Len(disk[p])
    /\ disk[p][units[s][p].pos + 1] = ReadFailure

\* `for await` throws: the catch block logs, the finally block closes, the
\* unit goes on as after a normal return
ReadErrorCaught(s, p) ==
    /\ AtReadFailure(s, p)
    /\ units' = [units EXCEPT ![s][p].pc = "settled"]
    /\ processedFiles' = [processedFiles EXCEPT ![s] = @ + 1]
    /\ semCount' = semCount + 1
    /\ firstAtCancel' = TrackFirst(s, p, TRUE)
    /\ UNCHANGED <<settings, disk, denied, walking, files, commands, folder,
                   dateRange, configCache, compiledTimestampPatterns, semTasks,
                   phase, token, matchedEntries, groupedEntries>>

\* the iteration stays pending: processLogFile never returns
ReadErrorLost(s, p) ==
    /\ AtReadFailure(s, p)
    /\ units' = [units EXCEPT ![s][p].pc = "stalled"]
    /\ firstAtCancel' = TrackFirst(s, p, FALSE)
    /\ UNCHANGED <<settings, disk, denied, walking, files, commands, folder,
                   dateRange, configCache, compiledTimestampPatterns, semCount,
                   semTasks, phase, token, matchedEntries, processedFiles,
                   groupedEntries>>

NextFault ==
    \/ Next
    \/ \E s \in Scans : \E p \in DOMAIN units[s] : ReadErrorCaught(s, p)
    \/ \E s \in Scans : \E p \in DOMAIN units[s] : ReadErrorLost(s, p)

\* one invocation over three files, the first of which cannot be read, or
\* not beyond its first line
InitFault ==
    /\ Activated
    /\ denied = {}
    /\ commands = {1}
    /\ folder = [s \in Scans |-> <<LogPath(1), LogPath(2), LogPath(3)>>]
    /\ \E broken \in {<<ReadFailure>>, <<PlainLine(1, "INFO"), ReadFailure>>} :
          disk = [p \in {LogPath(1), LogPath(2), LogPath(3)} |->
                     IF p = LogPath(1) THEN broken
                     ELSE IF p = LogPath(2) THEN FileInfoError
                     ELSE FileJsonBlock]
    /\ dateRange = [s \in Scans |-> Window(0, 2)]
    /\ settings = DefaultSettings

SpecFault == InitFault /\ [][NextFault]_vars

\* the runtime delivers the outcome of a failed read
FaultStep ==
    \E s \in Scans : \E p \in DOMAIN units[s] :
        ReadErrorCaught(s, p) \/ ReadErrorLost(s, p)

FairFault ==
    InitFault /\ [][NextFault]_vars /\ WF_vars(ProgramStep) /\ WF_vars(FaultStep)

(***************************************************************************)
(* Scans whose files hold lines out of time order or of one instant: one   *)
(* invocation over two files, every assignment of contents drawn.          *)
(***************************************************************************)
FileBackwards == <<PlainLine(2, "INFO"), PlainLine(1, "INFO")>>

FileSameInstant == <<PlainLine(1, "INFO"), PlainLine(1, "ERROR")>>

InitOrder ==
    /\ Activated
    /\ denied = {}
    /\ commands = {1}
    /\ folder = [s \in Scans |-> <<LogPath(1), LogPath(2)>>]
    /\ \E c \in [{LogPath(1), LogPath(2)} ->
                     {FileBackwards, FileSameInstant, FileTwoTies, FileDebug,
                      FileJsonBlock}] :
          disk = c
    /\ dateRange = [s \in Scans |-> Window(0, 2)]
    /\ settings = DefaultSettings

SpecOrder == InitOrder /\ [][Next]_vars

(***************************************************************************)
(* parseTimestamp on its own: one invocation over one file of one plain    *)
(* line, under any list of at most MaxRules well-formed rules and a date   *)
(* range that holds every instant of the model.                            *)
(***************************************************************************)
RuleChoices ==
    { [pattern |-> PatEpoch, format |-> "X"],
      [pattern |-> PatEpoch, format |-> "x"],
      [pattern |-> PatEpoch, format |-> FormatDate],
      [pattern |-> PatIso, format |-> FormatIso],
      [pattern |-> PatIso, format |-> FormatDate] }

RuleLines ==
    { <<Digits(0), Word("txt")>>,
      <<Digits(2), IsoF(1), Word("txt")>>,
      <<Digits(2), Iso(3), Word("txt")>>,
      <<Iso(3), Word("INFO"), IsoF(1)>>,
      <<Iso(-1), Word("INFO"), IsoF(1)>>,
      <<IsoF(-1), Word("txt")>>,
      PlainLine(1, "INFO"),
      <<Word("txt")>> }

InitRules ==
    /\ Activated
    /\ denied = {}
    /\ commands = {1}
    /\ folder = [s \in Scans |-> <<LogPath(1)>>]
    /\ \E line \in RuleLines : disk = [p \in {LogPath(1)} |-> <<line>>]
    /\ dateRange = [s \in Scans |-> Window(0, 2000)]
    /\ \E rules \in SeqsUpTo(RuleChoices, MaxRules) :
          settings = [DefaultSettings EXCEPT !.customTimestampRegexes = rules]

SpecRules == InitRules /\ [][Next]_vars

(***************************************************************************)
(* groupEntries on its own: the function applied to any list of at most    *)
(* MaxEntries entries of two files, sorted or not.                         *)
(***************************************************************************)
GroupInputs ==
    {[timestamp |-> t, line |-> PlainLine(t, "INFO"),
      filePath |-> LogPath(f), lineNumber |-> 1] : t \in 0..2, f \in 1..2}

GroupEntriesCall(s) ==
    /\ phase[s] = "grouping"
    /\ groupedEntries' = [groupedEntries EXCEPT ![s] = groupEntries(matchedEntries[s])]
    /\ phase' = [phase EXCEPT ![s] = "done"]
    /\ UNCHANGED <<settings, disk, denied, walking, files, commands, folder,
                   dateRange, configCache, compiledTimestampPatterns, semCount,
                   semTasks, token, matchedEntries, processedFiles, units,
                   firstAtCancel>>

NextGroup == \E s \in Scans : GroupEntriesCall(s)

InitGroup ==
    /\ settings = DefaultSettings
    /\ configCache = <<ConfigSnapshot>>
    /\ compiledTimestampPatterns = <<>>
    /\ semCount = MAX_CONCURRENT_FILES
    /\ semTasks = <<>>
    /\ walking = [s \in Scans |-> {}]
    /\ files = [s \in Scans |-> <<>>]
    /\ phase = [s \in Scans |-> "grouping"]
    /\ token = [s \in Scans |-> FALSE]
    /\ \E input \in SeqsUpTo(GroupInputs, MaxEntries) :
          matchedEntries = [s \in Scans |-> IF s = 1 THEN input ELSE <<>>]
    /\ processedFiles = [s \in Scans |-> 0]
    /\ units = [s \in Scans |-> <<>>]
    /\ groupedEntries = [s \in Scans |-> <<>>]
    /\ firstAtCancel = [s \in Scans |-> {}]
    /\ denied = {}
    /\ commands = {1, 2}
    /\ folder = [s \in Scans |-> <<>>]
    /\ disk = <<>>
    /\ dateRange = [s \in Scans |-> Window(0, 2)]

SpecGroup == InitGroup /\ [][NextGroup]_vars

(***************************************************************************)
(* Vocabulary of the properties.                                           *)
(***************************************************************************)
RECURSIVE Flatten(_)
Flatten(groups) ==
    IF Len(groups) = 0 THEN <<>>
    ELSE groups[1].entries \o Flatten(Tail(groups))

\* the entries of the groups handed to the export
ResultEntries(s) == Flatten(groupedEntries[s])

CountIn(seq, e) == Cardinality({i \in 1..Len(seq) : seq[i] = e})

InWindow(s, e) ==
    /\ dateRange[s].startEpoch <= e.timestamp
    /\ e.timestamp <= dateRange[s].endEpoch

\* an entry made from a JSON buffer carries the stringified object
IsJsonEntry(e) == Len(e.line) > 0 /\ e.line[1] = LB

\* the severity word of a line: <<>> when it has none
Severity(line) ==
    IF \E i \in 1..Len(line) : line[i].k \in Levels
    THEN LET i == CHOOSE i \in 1..Len(line) :
                      /\ line[i].k \in Levels
                      /\ \A j \in 1..(i - 1) : line[j].k \notin Levels
         IN  <<line[i].k>>
    ELSE <<>>

\* what processLogFile pushes for a file when it runs alone and uncancelled
RECURSIVE RunLines(_, _, _, _)
RunLines(u, lines, path, w) ==
    IF u.pos = Len(lines) THEN EndStep(u, path, w)
    ELSE IF lines[u.pos + 1] = ReadFailure THEN <<>>
    ELSE LET r == LineStep(u, lines[u.pos + 1], path, w)
         IN  r.push \o RunLines([r.u EXCEPT !.pos = u.pos + 1], lines, path, w)

FileEntries(path, w) ==
    RunLines(StartUnit(NewUnit, FALSE), disk[path], path, w)

\* the units that hold a semaphore slot
Holding ==
    {<<s, p>> \in UNION {{s} \X DOMAIN units[s] : s \in Scans} :
        units[s][p].pc \in {"reading", "stalled"}}

(***************************************************************************)
(* C1: every entry of the shared result list and of the returned groups    *)
(* has a timestamp t with startEpoch <= t <= endEpoch.                     *)
(***************************************************************************)
C1_EntriesWithinWindow ==
    \A s \in Scans :
        /\ \A e \in Range(matchedEntries[s]) : InWindow(s, e)
        /\ \A e \in Range(ResultEntries(s)) : InWindow(s, e)

\* a finished scan that returned entries and left out a timestamped line
\* that lies outside the window
C1_Witness ==
    /\ phase[1] = "done"
    /\ ResultEntries(1) # <<>>
    /\ \E p \in DOMAIN units[1] : \E i \in 1..Len(disk[p]) :
          /\ parseTimestamp(disk[p][i]) # <<>>
          /\ ~isWithinRange(parseTimestamp(disk[p][i])[1],
                            dateRange[1].startEpoch, dateRange[1].endEpoch)

(***************************************************************************)
(* C2: every plain entry of the result whose text holds a severity word s  *)
(* has "ALL" in the configured level set or s in the configured level set. *)
(***************************************************************************)
C2_PlainSeverityInLevels ==
    \A s \in Scans : \A e \in Range(ResultEntries(s)) :
        (~IsJsonEntry(e) /\ Severity(e.line) # <<>>)
            => \/ "ALL" \in settings.logLevels
               \/ Severity(e.line)[1] \in settings.logLevels

(***************************************************************************)
(* C3: at most MAX_CONCURRENT_FILES units hold a semaphore slot, also with *)
(* more files than slots and with overlapping invocations.                 *)
(***************************************************************************)
C3_SlotsBounded == Cardinality(Holding) <= MAX_CONCURRENT_FILES

\* every slot is taken by units of two overlapping scans and a unit waits
C3_Witness ==
    /\ Cardinality(Holding) = MAX_CONCURRENT_FILES
    /\ Len(semTasks) > 0
    /\ \E x, y \in Holding : x[1] # y[1]

(***************************************************************************)
(* C4: a unit that reaches processLogFile after cancellation was requested *)
(* returns without opening its file and without appending an entry; no     *)
(* entry of the result comes from a file that was never opened.            *)
(***************************************************************************)
C4_NoStartAfterCancel ==
    [][\A s \in Scans :
          /\ \A p \in DOMAIN units[s] :
                (token[s] /\ units[s][p].pc = "queued"
                          /\ units'[s][p].pc # "queued")
                    => /\ ~units'[s][p].opened
                       /\ units'[s][p].pc = "settled"
                       /\ matchedEntries'[s] = matchedEntries[s]
          /\ \A e \in Range(matchedEntries'[s]) :
                units'[s][e.filePath].opened]_vars

\* a cancelled scan holds entries of one file while the unit of another
\* file, which has lines, ended without opening it
C4_Witness ==
    /\ token[1]
    /\ matchedEntries[1] # <<>>
    /\ \E p \in DOMAIN units[1] :
          /\ units[1][p].pc = "settled"
          /\ ~units[1][p].opened
          /\ Len(disk[p]) > 0

(***************************************************************************)
(* C5: once cancellation is requested, a running unit appends no further   *)
(* entry, also when the request comes after the last line was read and     *)
(* before the end of the stream is handled.                                *)
(***************************************************************************)
C5_NoAppendAfterCancel ==
    [][\A s \in Scans :
          token[s] => Len(matchedEntries'[s]) = Len(matchedEntries[s])]_vars

(***************************************************************************)
(* C6: no step removes an entry from the shared result list, also after    *)
(* cancellation; a cancelled scan still reaches the sort and grouping      *)
(* step, whose groups hold exactly the collected entries; cancellation     *)
(* raises no error.                                                        *)
(***************************************************************************)
C6_PartialResultsKept ==
    /\ [][\A s \in Scans :
             /\ \A e \in Range(matchedEntries[s]) :
                   CountIn(matchedEntries'[s], e) >= CountIn(matchedEntries[s], e)
             /\ phase'[s] = "done" =>
                   \A e \in Range(matchedEntries'[s]) \cup Range(ResultEntries(s)') :
                       CountIn(ResultEntries(s)', e) = CountIn(matchedEntries'[s], e)
             /\ token'[s] => phase'[s] # "failed"]_vars
    /\ \A s \in Scans : token[s] ~> (phase[s] = "done")

\* a cancelled scan has ended with groups while a file was cut short
C6_Witness ==
    /\ token[1]
    /\ phase[1] = "done"
    /\ ResultEntries(1) # <<>>
    /\ \E p \in DOMAIN units[1] : units[1][p].pos < Len(disk[p])

OpeningLine(lines, n) ==
    CHOOSE j \in 1..n :
        /\ StartsWithBrace(lines[j])
        /\ \A k \in (j + 1)..n : ~StartsWithBrace(lines[k])

C8_LineNumberOfOpeningBrace ==
    [][\A s \in Scans : \A p \in DOMAIN units[s] :
          (/\ units[s][p].pc = "reading"
           /\ units[s][p].insideJson
           /\ units'[s][p].pos = units[s][p].pos + 1
           /\ Len(matchedEntries'[s]) = Len(matchedEntries[s]) + 1)
              => matchedEntries'[s][Len(matchedEntries'[s])].lineNumber
                     = OpeningLine(disk[p], units[s][p].pos)]_vars

(***************************************************************************)
(* C9 as stated: when the stream ends in Accumulating mode nothing is      *)
(* appended.                                                               *)
(***************************************************************************)
\* the step of unit p that handles the end of the stream while accumulating
EndsAccumulating(s, p) ==
    /\ units[s][p].pc = "reading"
    /\ units[s][p].pos = Len(disk[p])
    /\ units[s][p].insideJson
    /\ units'[s][p].pc = "settled"

C9_BufferDiscardedAtEnd ==
    [][\A s \in Scans : \A p \in DOMAIN units[s] :
          EndsAccumulating(s, p) => matchedEntries'[s] = matchedEntries[s]]_vars

(***************************************************************************)
(* C9 as amended: when the stream ends in Accumulating mode the buffer is  *)
(* parsed; if it is valid JSON and a configured field gives a valid        *)
(* instant other than 0 inside the window, one entry with that instant,    *)
(* the stringified object and the number of the last line is appended;     *)
(* otherwise nothing is appended.                                          *)
(***************************************************************************)
C9_BufferParsedAtEnd ==
    [][\A s \in Scans : \A p \in DOMAIN units[s] :
          EndsAccumulating(s, p) =>
              LET obj == JSONParse(units[s][p].jsonBuffer)
                  ts == IF obj.ok THEN extractTimestampFromJson(obj) ELSE <<>>
              IN  IF /\ obj.ok
                     /\ ts # <<>>
                     /\ ts[1] # 0
                     /\ dateRange[s].startEpoch <= ts[1]
                     /\ ts[1] <= dateRange[s].endEpoch
                  THEN matchedEntries'[s] =
                          Append(matchedEntries[s],
                                 [timestamp |-> ts[1], line |-> obj.out,
                                  filePath |-> p, lineNumber |-> Len(disk[p])])
                  ELSE matchedEntries'[s] = matchedEntries[s]]_vars

\* an uncancelled unit reached the end of a file of several lines while
\* accumulating, and the buffer gave an entry
C9_Witness ==
    /\ ~token[1]
    /\ \E p \in DOMAIN units[1] :
          /\ units[1][p].pc = "settled"
          /\ units[1][p].insideJson
          /\ units[1][p].pos = Len(disk[p])
          /\ Len(disk[p]) >= 2
          /\ \E e \in Range(matchedEntries[1]) :
                /\ IsJsonEntry(e)
                /\ e.filePath = p
                /\ e.lineNumber = Len(disk[p])

(***************************************************************************)
(* C10: two uncancelled scans over identical inputs give the     *)
(* identical sequence of groups.                                           *)
(***************************************************************************)
BothScansDone ==
    /\ phase[1] = "done"
    /\ phase[2] = "done"
    /\ ~token[1]
    /\ ~token[2]
    /\ dateRange[1] = dateRange[2]
    /\ folder[1] = folder[2]

C10_SameGroups == BothScansDone => groupedEntries[1] = groupedEntries[2]

(***************************************************************************)
(* C11: the result of a finished, uncancelled scan holds, for every file,  *)
(* exactly the entries that file's parser produces when it runs alone,     *)
(* each as often, and no other entry: whatever the interleaving of the     *)
(* units, no append is lost, doubled or altered.                           *)
(***************************************************************************)
C11_ResultIsUnionOfFiles ==
    \A s \in Scans :
        (phase[s] = "done" /\ ~token[s]) =>
            /\ \A p \in DOMAIN units[s] :
               \A e \in Range(FileEntries(p, dateRange[s])) :
                  CountIn(ResultEntries(s), e)
                      = CountIn(FileEntries(p, dateRange[s]), e)
            /\ \A e \in Range(ResultEntries(s)) :
                  /\ e.filePath \in DOMAIN units[s]
                  /\ CountIn(ResultEntries(s), e)
                         = CountIn(FileEntries(e.filePath, dateRange[s]), e)

\* an uncancelled scan has finished with entries of two files, two of them
\* with the same timestamp
C11_Witness ==
    /\ phase[1] = "done"
    /\ ~token[1]
    /\ \E a, b \in Range(ResultEntries(1)) :
          a.filePath # b.filePath /\ a.timestamp = b.timestamp

(***************************************************************************)
(* C12: for every input of groupEntries, sorted or not, adjacent entries   *)
(* of one group have the same file path and timestamps that do not         *)
(* decrease; and an input entry that differs in file path from the entry   *)
(* before it, or has a smaller timestamp than it (the end timestamp of the *)
(* current group), is the first entry of a group.                          *)
(***************************************************************************)
\* the places in the concatenation of the groups at which a group begins
GroupStarts(groups) ==
    {1 + Len(Flatten(SubSeq(groups, 1, k - 1))) : k \in 1..Len(groups)}

C12_GroupBoundaries ==
    \A s \in Scans :
        phase[s] = "done" =>
            LET input == matchedEntries[s]
                groups == groupedEntries[s]
            IN  /\ Flatten(groups) = input
                /\ \A k \in 1..Len(groups) :
                   \A i \in 1..(Len(groups[k].entries) - 1) :
                      /\ groups[k].entries[i].filePath
                             = groups[k].entries[i + 1].filePath
                      /\ groups[k].entries[i + 1].timestamp
                             >= groups[k].entries[i].timestamp
                /\ \A i \in 2..Len(input) :
                      (\/ input[i].filePath # input[i - 1].filePath
                       \/ input[i].timestamp < input[i - 1].timestamp)
                          => i \in GroupStarts(groups)

\* groupEntries was applied to an unsorted list: a timestamp decrease inside
\* one file split a group, and another group holds several entries
C12_Witness ==
    /\ phase[1] = "done"
    /\ \E i \in 2..Len(matchedEntries[1]) :
          /\ matchedEntries[1][i].filePath = matchedEntries[1][i - 1].filePath
          /\ matchedEntries[1][i].timestamp < matchedEntries[1][i - 1].timestamp
    /\ \E k \in 1..Len(groupedEntries[1]) : Len(groupedEntries[1][k].entries) >= 2
    /\ \E k \in 2..Len(groupedEntries[1]) :
          groupedEntries[1][k].filePath # groupedEntries[1][k - 1].filePath

(***************************************************************************)
(* C13: with startEpoch > endEpoch the scan is not rejected and no entry   *)
(* is ever collected: a finished, uncancelled scan has read every file to  *)
(* its end and hands over zero groups.                                     *)
(***************************************************************************)
C13_InvertedWindowEmpty ==
    \A s \in Scans :
        dateRange[s].startEpoch > dateRange[s].endEpoch =>
            /\ phase[s] # "failed"
            /\ matchedEntries[s] = <<>>
            /\ groupedEntries[s] = <<>>
            /\ (phase[s] = "done" /\ ~token[s]) =>
                  /\ DOMAIN units[s] = {p \in Range(folder[s]) : p.ext = "log"}
                  /\ \A p \in DOMAIN units[s] :
                        /\ units[s][p].pc = "settled"
                        /\ units[s][p].pos = Len(disk[p])

\* a scan with an inverted range has finished over files with a plain line
\* at or after the start and a JSON object at or before the end
C13_Witness ==
    /\ phase[1] = "done"
    /\ ~token[1]
    /\ dateRange[1].startEpoch > dateRange[1].endEpoch
    /\ \E p \in DOMAIN units[1] : \E i \in 1..Len(disk[p]) :
          /\ parseTimestamp(disk[p][i]) # <<>>
          /\ parseTimestamp(disk[p][i])[1] >= dateRange[1].startEpoch
    /\ \E p \in DOMAIN units[1] : \E i \in 1..Len(disk[p]) :
          /\ JSONParse(disk[p][i]).ok
          /\ extractTimestampFromJson(JSONParse(disk[p][i])) # <<>>
          /\ extractTimestampFromJson(JSONParse(disk[p][i]))[1]
                 <= dateRange[1].endEpoch

(***************************************************************************)
(* C14: when the selected folder itself cannot be read, the scan does not  *)
(* complete normally.                                                      *)
(***************************************************************************)
C14_UnreadableRootFails ==
    \A s \in Scans : <<>> \in denied => phase[s] # "done"

(***************************************************************************)
(* C17: once getLogFiles has resolved no directory walk is outstanding,    *)
(* and its list holds a regular file below the selected folder exactly     *)
(* once if the file's relative path matches an include pattern and no      *)
(* exclude pattern and every directory on the way to it can be read, and   *)
(* not at all otherwise; an unreadable subdirectory takes away only the    *)
(* files below it.                                                         *)
(***************************************************************************)
\* readdir succeeds on the selected folder and every directory down to p
Reachable(p) == \A k \in 0..Len(p.dirs) : SubSeq(p.dirs, 1, k) \notin denied

C15_MalformedRuleSkipped ==
    \A s \in Scans :
        phase[s] # "idle" =>
            /\ phase[s] # "failed"
            /\ compiledTimestampPatterns =
                  CompilePatterns(SelectSeq(configCache[1].customTimestampPatterns,
                                            LAMBDA r : ~RegExpThrows(r.pattern)))

(***************************************************************************)
(* C19: with no custom rule and the level filter accepting all levels, the *)
(* file of the example (an INFO line with an ISO instant without fraction  *)
(* inside the window, an ERROR line with one after the window) gives       *)
(* exactly one entry, the INFO line.                                       *)
(***************************************************************************)
C19_IsoWithoutFraction ==
    \A s \in Scans :
        (/\ phase[s] = "done"
         /\ ~token[s]
         /\ compiledTimestampPatterns = <<>>
         /\ "ALL" \in settings.logLevels
         /\ DOMAIN units[s] = {LogPath(1)}
         /\ disk[LogPath(1)] = FileIsoExample
         /\ dateRange[s] = Window(1, 2))
            => ResultEntries(s) =
                   <<[timestamp |-> 1, line |-> FileIsoExample[1],
                      filePath |-> LogPath(1), lineNumber |-> 1]>>

(***************************************************************************)
(* C20: an invocation made while the settings hold only well-formed rules  *)
(* works with the settings of that moment: the configuration it uses is    *)
(* the snapshot of the current settings and the compiled rules are the     *)
(* current rules.                                                          *)
(***************************************************************************)
C20_ConfigurationIsFresh ==
    [][\A s \in Scans :
          (/\ phase[s] = "idle"
           /\ phase'[s] # "idle"
           /\ ~CompileThrows(settings.customTimestampRegexes))
              => /\ configCache' = <<ConfigSnapshot>>
                 /\ compiledTimestampPatterns' =
                        CompilePatterns(settings.customTimestampRegexes)]_vars

(***************************************************************************)
(* C18: when a line closes a JSON block (the brace counter reaches 0), the *)
(* buffer parses and a configured field gives a valid instant t, an entry  *)
(* with timestamp t is appended if and only if startEpoch <= t <= endEpoch *)
(* for every t, 0 included.                                                *)
(***************************************************************************)
\* the step of unit p that reads the line closing its JSON block
ClosesBlock(s, p) ==
    /\ units[s][p].pc = "reading"
    /\ units[s][p].insideJson
    /\ units'[s][p].pos = units[s][p].pos + 1
    /\ ~units'[s][p].insideJson

C18_JsonAcceptedOnWindowAlone ==
    [][\A s \in Scans : \A p \in DOMAIN units[s] :
          ClosesBlock(s, p) =>
              LET text == units[s][p].jsonBuffer \o <<NL>>
                              \o disk[p][units[s][p].pos + 1]
                  obj == JSONParse(text)
                  ts == IF obj.ok THEN extractTimestampFromJson(obj) ELSE <<>>
              IN  (obj.ok /\ ts # <<>>) =>
                      ((/\ Len(matchedEntries'[s]) = Len(matchedEntries[s]) + 1
                        /\ matchedEntries'[s][Len(matchedEntries'[s])].timestamp
                               = ts[1])
                       <=> (/\ dateRange[s].startEpoch <= ts[1]
                            /\ ts[1] <= dateRange[s].endEpoch))]_vars

(***************************************************************************)
(* C16: the step in which the read stream of a file fails ends that file's *)
(* unit normally: the unit settles and releases its slot, the scan is not  *)
(* failed, and the entries collected so far stay as they are.              *)
(***************************************************************************)
C16_ReadErrorSkipsFile ==
    [][\A s \in Scans : \A p \in DOMAIN units[s] :
          (AtReadFailure(s, p) /\ units'[s][p] # units[s][p])
              => /\ units'[s][p].pc = "settled"
                 /\ semCount' = semCount + 1
                 /\ phase'[s] # "failed"
                 /\ matchedEntries'[s] = matchedEntries[s]]_vars

(***************************************************************************)
(* C21: a line read in Accumulating mode that does not close the block,    *)
(* also one whose first non-blank character is '{', is appended to the     *)
(* buffer behind a newline and changes the brace counter by its number of  *)
(* '{' minus its number of '}'; the parser stays in Accumulating mode.     *)
(***************************************************************************)
\* the step of unit p that reads a line while accumulating
ReadsAccumulating(s, p) ==
    /\ units[s][p].pc = "reading"
    /\ units[s][p].insideJson
    /\ units'[s][p].pos = units[s][p].pos + 1

C21_AccumulatingAppendsEveryLine ==
    [][\A s \in Scans : \A p \in DOMAIN units[s] :
          ReadsAccumulating(s, p) =>
              LET line == disk[p][units[s][p].pos + 1]
                  count == units[s][p].openBracesCount
                               + CountTok(line, LB) - CountTok(line, RB)
              IN  count # 0 =>
                      /\ units'[s][p].insideJson
                      /\ units'[s][p].openBracesCount = count
                      /\ units'[s][p].jsonBuffer
                             = units[s][p].jsonBuffer \o <<NL>> \o line]_vars

(***************************************************************************)
(* C22: when a line brings the brace counter to 0 and the buffer does not  *)
(* parse, or parses without a configured field that holds a valid instant, *)
(* nothing is appended, the unit keeps reading, the scan is not failed,    *)
(* and the parser is in Line mode with an empty buffer; a line read in     *)
(* Line mode either opens a block or is handled as a plain line.           *)
(***************************************************************************)
C22_UnusableBlockDropped ==
    [][\A s \in Scans : \A p \in DOMAIN units[s] :
          /\ ReadsAccumulating(s, p) =>
                LET line == disk[p][units[s][p].pos + 1]
                    count == units[s][p].openBracesCount
                                 + CountTok(line, LB) - CountTok(line, RB)
                    obj == JSONParse(units[s][p].jsonBuffer \o <<NL>> \o line)
                IN  (/\ ~StartsWithBrace(line)
                     /\ count = 0
                     /\ \/ ~obj.ok
                        \/ extractTimestampFromJson(obj) = <<>>)
                        => /\ matchedEntries'[s] = matchedEntries[s]
                           /\ units'[s][p].pc = "reading"
                           /\ phase'[s] = phase[s]
                           /\ ~units'[s][p].insideJson
                           /\ units'[s][p].jsonBuffer = <<>>
          /\ (/\ units[s][p].pc = "reading"
              /\ ~units[s][p].insideJson
              /\ units'[s][p].pos = units[s][p].pos + 1) =>
                LET line == disk[p][units[s][p].pos + 1]
                IN  IF StartsWithBrace(line)
                    THEN /\ units'[s][p].insideJson
                         /\ units'[s][p].jsonBuffer = line
                         /\ matchedEntries'[s] = matchedEntries[s]
                    ELSE /\ ~units'[s][p].insideJson
                         /\ \/ matchedEntries'[s] = matchedEntries[s]
                            \/ matchedEntries'[s] = Append(matchedEntries[s],
                                  [timestamp |-> parseTimestamp(line)[1],
                                   line |-> line, filePath |-> p,
                                   lineNumber |-> units[s][p].pos + 1])]_vars

\* the second line of a file closed a block that does not parse, and the
\* third line, a plain line, gave an entry
C22_Witness ==
    \E p \in DOMAIN units[1] :
        /\ units[1][p].pos = 3
        /\ ~units[1][p].insideJson
        /\ StartsWithBrace(disk[p][1])
        /\ ~StartsWithBrace(disk[p][2])
        /\ 1 + CountTok(disk[p][2], LB) - CountTok(disk[p][2], RB) = 0
        /\ ~JSONParse(disk[p][1] \o <<NL>> \o disk[p][2]).ok
        /\ \E e \in Range(matchedEntries[1]) :
              e.lineNumber = 3 /\ e.line = disk[p][3]

(***************************************************************************)
(* C23: a plain line gets the instant of the lowest-index rule whose regex *)
(* matches it and whose interpretation is valid; a matching rule with an   *)
(* invalid interpretation is passed over; the ISO fallback is used only    *)
(* when no rule gave a valid instant; otherwise the line is discarded.     *)
(***************************************************************************)
\* the rules that match the line and give a valid instant
RulesGivingInstant(rules, line) ==
    {i \in 1..Len(rules) :
        /\ RegexMatch(rules[i].regex, line) # <<>>
        /\ InterpretMatch(RegexMatch(rules[i].regex, line)[1],
                          rules[i].format) # <<>>}

ExpectedTimestamp(rules, line) ==
    LET good == RulesGivingInstant(rules, line)
        iso == {i \in 1..Len(line) :
                   line[i].k = "isoF" /\ \A j \in 1..(i - 1) : line[j].k # "isoF"}
    IN  IF good # {}
        THEN LET i == CHOOSE i \in good : \A j \in good : i <= j
             IN  InterpretMatch(RegexMatch(rules[i].regex, line)[1],
                                rules[i].format)
        ELSE IF \E i \in iso : line[i].v >= 0
        THEN <<line[CHOOSE i \in iso : TRUE].v>>
        ELSE <<>>

C23_FirstValidRuleWins ==
    [][\A s \in Scans : \A p \in DOMAIN units[s] :
          (/\ units[s][p].pc = "reading"
           /\ ~units[s][p].insideJson
           /\ units'[s][p].pos = units[s][p].pos + 1
           /\ ~StartsWithBrace(disk[p][units[s][p].pos + 1])) =>
              LET line == disk[p][units[s][p].pos + 1]
                  ts == ExpectedTimestamp(compiledTimestampPatterns, line)
              IN  IF /\ ts # <<>>
                     /\ dateRange[s].startEpoch <= ts[1]
                     /\ ts[1] <= dateRange[s].endEpoch
                  THEN matchedEntries'[s] = Append(matchedEntries[s],
                           [timestamp |-> ts[1], line |-> line, filePath |-> p,
                            lineNumber |-> units[s][p].pos + 1])
                  ELSE matchedEntries'[s] = matchedEntries[s]]_vars

\* a line got its instant from the second rule: the first rule matches it
\* without giving a valid instant, and the ISO fallback would give another
C23_Witness ==
    /\ Len(compiledTimestampPatterns) = 2
    /\ \E e \in Range(matchedEntries[1]) :
          /\ RegexMatch(compiledTimestampPatterns[1].regex, e.line) # <<>>
          /\ RulesGivingInstant(compiledTimestampPatterns, e.line) = {2}
          /\ IsoMatch(e.line) # <<>>
          /\ IsoMatch(e.line)[1].v >= 0
          /\ IsoMatch(e.line)[1].v # e.timestamp

(***************************************************************************)
(* C24: for every input, the entries of the groups groupEntries returns,   *)
(* concatenated in group order, are exactly the input sequence, and no     *)
(* group is empty.                                                         *)
(***************************************************************************)
C24_GroupsPartitionInput ==
    \A s \in Scans :
        phase[s] = "done" =>
            /\ Flatten(groupedEntries[s]) = matchedEntries[s]
            /\ \A i \in 1..Len(groupedEntries[s]) :
                  Len(groupedEntries[s][i].entries) >= 1

\* groupEntries returned for a full input in which an entry is older than
\* the entry of the same file before it
C24_Witness ==
    /\ phase[1] = "done"
    /\ Len(matchedEntries[1]) = MaxEntries
    /\ Len(groupedEntries[1]) >= 2
    /\ \E i \in 1..(MaxEntries - 1) :
          /\ matchedEntries[1][i].filePath = matchedEntries[1][i + 1].filePath
          /\ matchedEntries[1][i].timestamp > matchedEntries[1][i + 1].timestamp

(***************************************************************************)
(* C25: in the output of a scan every group's startTimestamp is the        *)
(* timestamp of its first entry and its endTimestamp that of its last      *)
(* entry, startTimestamp <= endTimestamp, and the groups come in           *)
(* non-decreasing order of startTimestamp.                                 *)
(***************************************************************************)
C25_GroupBoundsAndOrder ==
    \A s \in Scans :
        phase[s] = "done" =>
            LET groups == groupedEntries[s]
            IN  /\ \A i \in 1..Len(groups) :
                      /\ groups[i].entries # <<>>
                      /\ groups[i].startTimestamp = groups[i].entries[1].timestamp
                      /\ groups[i].endTimestamp
                             = groups[i].entries[Len(groups[i].entries)].timestamp
                      /\ groups[i].startTimestamp <= groups[i].endTimestamp
                /\ \A i \in 1..(Len(groups) - 1) :
                      groups[i].startTimestamp <= groups[i + 1].startTimestamp

\* a finished scan with several groups, one of them spanning two instants
C25_Witness ==
    /\ phase[1] = "done"
    /\ Len(groupedEntries[1]) >= 2
    /\ \E i \in 1..Len(groupedEntries[1]) :
          /\ Len(groupedEntries[1][i].entries) >= 2
          /\ groupedEntries[1][i].startTimestamp < groupedEntries[1][i].endTimestamp

(***************************************************************************)
(* C27: in the output of a scan two adjacent groups never have the same    *)
(* filePath, and no group begins with an entry older than the end of the   *)
(* group before it: a boundary is always a change of file.                 *)
(***************************************************************************)
C27_BoundaryIsFileChange ==
    \A s \in Scans :
        phase[s] = "done" =>
            \A i \in 1..(Len(groupedEntries[s]) - 1) :
                /\ groupedEntries[s][i].filePath # groupedEntries[s][i + 1].filePath
                /\ groupedEntries[s][i + 1].entries[1].timestamp
                       >= groupedEntries[s][i].endTimestamp

\* a finished scan with several groups, one of them holding the two lines
\* of a file whose second line is older than its first
C27_Witness ==
    /\ phase[1] = "done"
    /\ Len(groupedEntries[1]) >= 2
    /\ \E i \in 1..Len(groupedEntries[1]) :
          /\ disk[groupedEntries[1][i].filePath] = FileBackwards
          /\ Len(groupedEntries[1][i].entries) = 2

(***************************************************************************)
(* C26: the slots held and the free slots always add up to                 *)
(* MAX_CONCURRENT_FILES, a settled unit holds none, and under fair         *)
(* scheduling every scan that has begun processing its files, also one     *)
(* with a file that fails to be read, eventually has all its units         *)
(* settled, every slot free, and its sort and grouping done.               *)
(***************************************************************************)
C26_EverySlotReturned ==
    /\ [](semCount + Cardinality(Holding) = MAX_CONCURRENT_FILES)
    /\ \A s \in Scans :
          (phase[s] = "processing") ~>
              (/\ phase[s] = "done"
               /\ \A p \in DOMAIN units[s] : units[s][p].pc = "settled"
               /\ semCount = MAX_CONCURRENT_FILES)

(***************************************************************************)
(* C28: at every line boundary at which the parser is accumulating a JSON  *)
(* block the brace counter is at least 1; it is never negative.            *)
(***************************************************************************)
C28_CounterPositiveWhileAccumulating ==
    \A s \in Scans : \A p \in DOMAIN units[s] :
        (units[s][p].pc = "reading" /\ units[s][p].insideJson) =>
            units[s][p].openBracesCount >= 1

====
